---- MODULE Spec2Model ----
(***************************************************************************)
(* Model of dix, a build-time dependency-injection compiler: the scheduler *)
(* (BuildOrder, Kahn's algorithm with the final/disable fences), the code  *)
(* emitter (GenerateCode, generateDepExpr, GenContext) and the scanning    *)
(* front end (parseFileComments, ScanProjectAndGenerateDI).                *)
(*                                                                         *)
(* Go maps are enumerated in an unspecified order: every `range` over a    *)
(* map takes its enumeration order as an explicit argument, which the      *)
(* actions choose nondeterministically.                                    *)
(***************************************************************************)
EXTENDS Integers, Sequences, FiniteSets, TLC

\* ------------------------------------------------------------------------
\* Bounds of the model
\* ------------------------------------------------------------------------

\* The aliases a container may use as keys.
Aliases == {"a", "id_1", "dix"}

\* Total number of dependency entries over all factories of a container.
MaxDeps == 2

\* Number of factories of a container that carry a flag (Final or Disable).
MaxFlagged == 2

\* The project root; paths are sequences of path components.
Root == <<"r">>

\* The directories of the project that hold source files.
Dirs == {<<"r">>, <<"r", "p">>}

\* The aliases and the dependency texts the scanned directives use, the
\* longest comment list scanned.
ScanAliases == {"a", "b"}
DepTexts == {<<"a">>, <<"^", "a">>}
MaxComments == 4

\* The module identity read from go.mod.
ModuleName == "m"

\* ------------------------------------------------------------------------
\* Helpers on sequences and maps
\* ------------------------------------------------------------------------

\* All enumeration orders of a finite set (the orders a Go `range` over a
\* map with these keys can take).
Perms(S) ==
    {p \in [1..Cardinality(S) -> S] : \A i, j \in 1..Cardinality(S) : p[i] = p[j] => i = j}

\* The elements of a sequence.
Range(s) == {s[i] : i \in 1..Len(s)}

\* The first position of x in s, 0 when absent.
IndexOf(s, x) ==
    IF x \in Range(s) THEN CHOOSE i \in 1..Len(s) : s[i] = x /\ \A j \in 1..(i-1) : s[j] # x
    ELSE 0

\* The number of positions of s holding x.
Count(s, x) == Cardinality({i \in 1..Len(s) : s[i] = x})

\* Reading a Go map of slices: a missing key reads as the nil slice.
GetSlice(m, k) == IF k \in DOMAIN m THEN m[k] ELSE <<>>

\* Reading a Go map of strings: a missing key reads as the empty string.
GetString(m, k) == IF k \in DOMAIN m THEN m[k] ELSE ""

\* Writing a Go map: m[k] = v.
Put(m, k, v) == [x \in (DOMAIN m) \cup {k} |-> IF x = k THEN v ELSE m[x]]

\* The empty Go map.
EmptyMap == [x \in {} |-> 0]

\* ------------------------------------------------------------------------
\* Data model
\* ------------------------------------------------------------------------

\* type Dependency struct { Name; Standalone }
Dependency(K) == [Name : K, Standalone : BOOLEAN]

\* The constructor function a factory annotation names for an alias.
FunctionOf(alias) ==
    CASE alias = "a" -> "NewA"
      [] alias = "b" -> "NewB"
      [] alias = "id_1" -> "NewID"
      [] alias = "dix" -> "NewDix"
      [] OTHER -> "New"

\* type Factory struct { Alias; Function; Deps; Module; Final; Disable }
\* (File and Pos only feed the //line comment of a declaration and are left out.)
Factory(alias, deps, module, final, disable) ==
    [Alias |-> alias, Function |-> FunctionOf(alias), Deps |-> deps,
     Module |-> module, Final |-> final, Disable |-> disable]

\* error values: nil, or the error built by fmt.Errorf / errors.New
\* (kind: the message; dep, of: the aliases it names; loc: the location it names)
NoErr == [kind |-> "nil", dep |-> "", of |-> "", loc |-> <<>>]
Err(kind, dep, of) == [kind |-> kind, dep |-> dep, of |-> of, loc |-> <<>>]
ErrAt(kind, dep, of, loc) == [kind |-> kind, dep |-> dep, of |-> of, loc |-> loc]

\* ------------------------------------------------------------------------
\* Scheduler: BuildOrder
\* ------------------------------------------------------------------------

\* A fence that forgets the Disable flag.
EdgeCheckFinalOnly(container, name, alias) ==
    IF container[name].Final THEN Err("final", name, alias) ELSE NoErr

\* The fence on a dependency edge, checked while the edge is built:
\* the error for dependency `name` of `alias`, NoErr when the edge is allowed.
EdgeCheck(container, name, alias) ==
    IF container[name].Final THEN Err("final", name, alias)
    ELSE IF container[name].Disable THEN Err("disable", name, alias)
    ELSE NoErr

\* An inner loop that builds every edge backwards, from the dependent to its
\* dependency.
RECURSIVE AddDepsReversed(_, _, _, _, _)
AddDepsReversed(container, alias, i, indegree, graph) ==
    IF i > Len(container[alias].Deps)
    THEN [indegree |-> indegree, graph |-> graph, err |-> NoErr]
    ELSE LET dep == container[alias].Deps[i]
             e == IF container[dep.Name].Final THEN Err("final", dep.Name, alias)
                  ELSE IF container[dep.Name].Disable THEN Err("disable", dep.Name, alias)
                  ELSE NoErr
             deg == IF dep.Name \in DOMAIN indegree THEN indegree[dep.Name] ELSE 0
         IN IF e # NoErr
            THEN [indegree |-> indegree, graph |-> graph, err |-> e]
            ELSE AddDepsReversed(container, alias, i + 1,
                     Put(indegree, dep.Name, deg + 1),
                     Put(graph, alias, Append(GetSlice(graph, alias), dep.Name)))

\* The inner loop over f.Deps, from entry i on.
RECURSIVE AddDeps(_, _, _, _, _)
AddDeps(container, alias, i, indegree, graph) ==
    IF i > Len(container[alias].Deps)
    THEN [indegree |-> indegree, graph |-> graph, err |-> NoErr]
    ELSE LET dep == container[alias].Deps[i]
             e == EdgeCheck(container, dep.Name, alias)
         IN IF e # NoErr
            THEN [indegree |-> indegree, graph |-> graph, err |-> e]
            ELSE AddDeps(container, alias, i + 1,
                         Put(indegree, alias, indegree[alias] + 1),
                         Put(graph, dep.Name, Append(GetSlice(graph, dep.Name), alias)))

\* The outer loop `for alias, f := range container`, enumerated in the
\* order enum, from entry j on.
RECURSIVE BuildAdjacency(_, _, _, _, _)
BuildAdjacency(container, enum, j, indegree, graph) ==
    IF j > Len(enum)
    THEN [indegree |-> indegree, graph |-> graph, err |-> NoErr]
    ELSE LET alias == enum[j]
             ind0 == IF alias \in DOMAIN indegree THEN indegree ELSE Put(indegree, alias, 0)
             r == AddDeps(container, alias, 1, ind0, graph)
         IN IF r.err # NoErr THEN r
            ELSE BuildAdjacency(container, enum, j + 1, r.indegree, r.graph)

\* `for n, deg := range indegree`: the nodes of indegree 0, in the order the
\* map is enumerated.
SeedQueue(indegree, enum) == SelectSeq(enum, LAMBDA n : indegree[n] = 0)

\* A relaxation that enqueues every successor it decrements.
RECURSIVE RelaxNoTest(_, _, _, _)
RelaxNoTest(succ, i, indegree, queue) ==
    IF i > Len(succ) THEN [indegree |-> indegree, queue |-> queue]
    ELSE RelaxNoTest(succ, i + 1, Put(indegree, succ[i], indegree[succ[i]] - 1),
                     Append(queue, succ[i]))

\* `for _, next := range graph[node]`: decrement the successors, enqueue the
\* ones that reach 0.
RECURSIVE Relax(_, _, _, _)
Relax(succ, i, indegree, queue) ==
    IF i > Len(succ) THEN [indegree |-> indegree, queue |-> queue]
    ELSE LET next == succ[i]
             d == indegree[next] - 1
         IN Relax(succ, i + 1, Put(indegree, next, d),
                  IF d = 0 THEN Append(queue, next) ELSE queue)

\* `for len(queue) > 0`: the queue-draining loop of Kahn's algorithm.
RECURSIVE Drain(_, _, _, _)
Drain(queue, order, indegree, graph) ==
    IF queue = <<>> THEN order
    ELSE LET node == Head(queue)
             r == Relax(GetSlice(graph, node), 1, indegree, Tail(queue))
         IN Drain(r.queue, Append(order, node), r.indegree, graph)

\* A repartition that puts the Final aliases first.
RepartitionFinalsFirst(container, order) ==
    SelectSeq(order, LAMBDA x : container[x].Final)
        \o SelectSeq(order, LAMBDA x : ~container[x].Final)

\* The final repartition: the non-Final aliases, then the Final ones.
Repartition(container, order) ==
    SelectSeq(order, LAMBDA x : ~container[x].Final)
        \o SelectSeq(order, LAMBDA x : container[x].Final)

\* A cycle test that only rejects an order that is too long.
IsCompleteAtMost(container, order) == Len(order) <= Cardinality(DOMAIN container)

\* The cycle test after the drain.
IsComplete(container, order) == Len(order) = Cardinality(DOMAIN container)

\* BuildOrder(container): enumC and enumI are the orders in which `range
\* container` and `range indegree` enumerate.  `kahn` records the order the
\* drain produced, before the repartition.
BuildOrder(container, enumC, enumI) ==
    LET adj == BuildAdjacency(container, enumC, 1, EmptyMap, EmptyMap)
    IN IF adj.err # NoErr
       THEN [order |-> <<>>, err |-> adj.err, kahn |-> <<>>]
       ELSE LET kahn == Drain(SeedQueue(adj.indegree, enumI), <<>>, adj.indegree, adj.graph)
            IN IF ~IsComplete(container, kahn)
               THEN [order |-> <<>>, err |-> Err("circular", "", ""), kahn |-> kahn]
               ELSE [order |-> Repartition(container, kahn), err |-> NoErr, kahn |-> kahn]

\* ------------------------------------------------------------------------
\* Code emitter: GenContext, generateDepExpr, GenerateCode
\* ------------------------------------------------------------------------

\* strconv.Itoa on the counter values the emitter reaches, prefixed "id_".
UIDNames == <<"id_1", "id_2", "id_3", "id_4", "id_5", "id_6", "id_7", "id_8">>

\* The import path of the support package that defines Mark.
DixPath == <<"github.com/smtdfc/dix">>

\* &GenContext{ImportID: make(map), Container: make(map), Counter: 0}
NewGenContext == [ImportID |-> EmptyMap, Container |-> EmptyMap, Counter |-> 0]

\* GenContext.GenUID: bump the counter, return "id_" + counter.
GenUID(ctx) ==
    [ctx |-> [ctx EXCEPT !.Counter = @ + 1], id |-> UIDNames[ctx.Counter + 1]]

\* GenContext.ResolveImport: the alias of a module path, allocated on first use.
ResolveImport(ctx, module) ==
    IF module \in DOMAIN ctx.ImportID
    THEN [ctx |-> ctx, id |-> ctx.ImportID[module]]
    ELSE LET u == GenUID(ctx)
         IN [ctx |-> [u.ctx EXCEPT !.ImportID = Put(@, module, u.id)], id |-> u.id]

\* AST expressions: ast.NewIdent(name) and the call mod.fn(args...).
Ident(name) == [kind |-> "ident", name |-> name, mod |-> "", args |-> <<>>]
CallExpr(mod, fn, args) == [kind |-> "call", name |-> fn, mod |-> mod, args |-> args]

\* A generateDepExpr that reuses the declared identifier for every dependency.
generateDepExprReuse(ctx, dep, container) ==
    [ctx |-> ctx, expr |-> Ident(GetString(ctx.Container, dep.Name))]

\* generateDepExpr: an inline constructor call for a standalone dependency
\* (its own dependencies expanded the same way), the declared identifier of
\* the alias otherwise.  GenArgs is the loop over a Deps list from entry i on.
RECURSIVE generateDepExpr(_, _, _)
RECURSIVE GenArgs(_, _, _, _, _)
generateDepExpr(ctx, dep, container) ==
    IF dep.Standalone
    THEN LET factory == container[dep.Name]
             imp == ResolveImport(ctx, factory.Module)
             sub == GenArgs(imp.ctx, factory.Deps, 1, <<>>, container)
         IN [ctx |-> sub.ctx, expr |-> CallExpr(imp.id, factory.Function, sub.args)]
    ELSE [ctx |-> ctx, expr |-> Ident(GetString(ctx.Container, dep.Name))]

GenArgs(ctx, deps, i, args, container) ==
    IF i > Len(deps) THEN [ctx |-> ctx, args |-> args]
    ELSE LET r == generateDepExpr(ctx, deps[i], container)
         IN GenArgs(r.ctx, deps, i + 1, Append(args, r.expr), container)

\* filepath.Rel(root, path) on component sequences: up from root to the
\* common prefix, then down to path ("." is the empty sequence).
RECURSIVE CommonPrefixLen(_, _)
CommonPrefixLen(a, b) ==
    IF a = <<>> \/ b = <<>> \/ Head(a) # Head(b) THEN 0
    ELSE 1 + CommonPrefixLen(Tail(a), Tail(b))

Rel(root, path) ==
    LET c == CommonPrefixLen(root, path)
    IN [i \in 1..(Len(root) - c) |-> ".."] \o SubSeq(path, c + 1, Len(path))

\* sanitizeModulePath: the import path of a directory, moduleName alone for
\* the root itself, moduleName/rel otherwise.
sanitizeModulePath(absPath, root, moduleName) ==
    LET rel == Rel(root, absPath)
    IN IF rel = <<>> THEN <<moduleName>> ELSE <<moduleName>> \o rel

\* `for _, f := range config.Container { f.Module = sanitizeModulePath(...) }`
NormalizeModules(container, root, moduleName) ==
    [k \in DOMAIN container |->
        [container[k] EXCEPT !.Module = sanitizeModulePath(@, root, moduleName)]]

\* The local identifier GenerateCode declares for a factory.
LocalID(factory) == factory.Alias

\* `for _, item := range order`: one declaration per alias of the order,
\* from entry i on.
RECURSIVE EmitDecls(_, _, _, _, _, _)
EmitDecls(ctx, order, i, stmts, depIdents, container) ==
    IF i > Len(order) THEN [ctx |-> ctx, stmts |-> stmts, depIdents |-> depIdents]
    ELSE LET item == order[i]
             factory == container[item]
             id == LocalID(factory)
             ctx1 == [ctx EXCEPT !.Container = Put(@, item, id)]
             a == GenArgs(ctx1, factory.Deps, 1, <<>>, container)
             imp == ResolveImport(a.ctx, factory.Module)
             stmt == [Name |-> id, Value |-> CallExpr(imp.id, factory.Function, a.args)]
         IN EmitDecls(imp.ctx, order, i + 1, Append(stmts, stmt),
                      Append(depIdents, id), container)

\* The import declaration: the fixed dix binding, then `for mod, alias :=
\* range ctx.ImportID` in the order enumM enumerates the module paths; no
\* declaration at all when ImportID is empty.
ImportSpecs(importID, enumM) ==
    IF DOMAIN importID = {} THEN <<>>
    ELSE LET mods == SelectSeq(enumM, LAMBDA m : m \in DOMAIN importID)
         IN <<[Name |-> "dix", Path |-> DixPath]>>
              \o [i \in 1..Len(mods) |-> [Name |-> importID[mods[i]], Path |-> mods[i]]]

\* The result of GenerateCode when it returns "" and an error.
NoFile == [text |-> FALSE, imports |-> <<>>, stmts |-> <<>>, mark |-> <<>>]

\* GenerateCode(root, moduleName, config).  The file is kept as the AST that
\* format.Node prints: the import specs, the declarations of Root's body and
\* the arguments of the dix.Mark call (none when nothing is declared).
GenerateCode(root, moduleName, container, enumC, enumI, enumM) ==
    LET bo == BuildOrder(container, enumC, enumI)
    IN IF bo.err # NoErr
       THEN [file |-> NoFile, err |-> bo.err, order |-> bo, container |-> container,
             ctx |-> NewGenContext]
       ELSE LET norm == NormalizeModules(container, root, moduleName)
                body == EmitDecls(NewGenContext, bo.order, 1, <<>>, <<>>, norm)
            IN [file |-> [text |-> TRUE,
                          imports |-> ImportSpecs(body.ctx.ImportID, enumM),
                          stmts |-> body.stmts,
                          mark |-> body.depIdents],
                err |-> NoErr, order |-> bo, container |-> norm, ctx |-> body.ctx]

\* ------------------------------------------------------------------------
\* Inputs: the containers the graph builder can hand to the scheduler
\* ------------------------------------------------------------------------

\* A flat list of dependency entries, each with the factory that owns it.
EdgeLists(K) == UNION {[1..n -> [owner : K, dep : Dependency(K)]] : n \in 0..MaxDeps}

\* The Deps list of factory k: its entries, in declared order.
DepsOf(edges, k) ==
    LET mine == SelectSeq(edges, LAMBDA x : x.owner = k)
    IN [i \in 1..Len(mine) |-> mine[i].dep]

\* The containers: every alias is its own key, every dependency resolves.
\* The flags a container may carry: per alias none, Final or Disable.
FlagMaps(K) ==
    {fs \in [K -> {"none", "Final", "Disable"}] :
        Cardinality({k \in K : fs[k] # "none"}) <= MaxFlagged}

\* The directory that declares the factory of an alias (the project layout).
DirOf(alias) == IF alias = "dix" THEN <<"r">> ELSE <<"r", "p">>

\* The Alias field of the factory stored under key k: the alias is the key of
\* its node.
AliasOf(k) == k

\* The container with keys K, dependency entries edges and flags fs: every
\* dependency resolves to a key, as the graph builder leaves it.
MkContainer(K, edges, fs) ==
    [k \in K |-> Factory(AliasOf(k), DepsOf(edges, k), DirOf(k),
                         fs[k] = "Final", fs[k] = "Disable")]

\* The module paths a container's factories can normalise to.
ModulePaths == {sanitizeModulePath(DirOf(k), Root, ModuleName) : k \in Aliases}

\* What BuildOrder returns when it was not called.
NoResult == [order |-> <<>>, err |-> NoErr, kahn |-> <<>>]

\* ------------------------------------------------------------------------
\* Scanner front end: parseFileComments, ScanProjectAndGenerateDI, and the
\* scheduler and emitter it calls (the two-argument GenerateCode)
\* ------------------------------------------------------------------------

\* A directive comment `@<Key>: <value>` with the directory of its file; the
\* value is kept split at its separators: `Function -> Alias` for factory,
\* `Alias(Deps...)` for wire, `Alias` for final and disable.
Comment(key, function, alias, deps, path) ==
    [Key |-> key, Function |-> function, Alias |-> alias, Deps |-> deps, Path |-> path]

\* parseFactoryAnnotation / parseWireAnnotation: the annotation of a comment.
Annotation(c) ==
    IF c.Key = "factory"
    THEN [Type |-> "Factory", Path |-> c.Path, Function |-> c.Function,
          Alias |-> c.Alias, Target |-> "", Deps |-> <<>>]
    ELSE [Type |-> "Wire", Path |-> c.Path, Function |-> "",
          Alias |-> "", Target |-> c.Alias, Deps |-> c.Deps]

\* parseFileComments (through scanDir): the annotations of the comments, in
\* order; only the keys "factory" and "wire" produce one.
parseFileComments(cs) ==
    LET kept == SelectSeq(cs, LAMBDA c : c.Key = "factory" \/ c.Key = "wire")
    IN [i \in 1..Len(kept) |-> Annotation(kept[i])]

\* filepath.Clean on component sequences: ".." cancels the component before.
RECURSIVE Clean(_, _)
Clean(done, rest) ==
    IF rest = <<>> THEN done
    ELSE IF Head(rest) = ".." /\ done # <<>> /\ done[Len(done)] # ".."
         THEN Clean(SubSeq(done, 1, Len(done) - 1), Tail(rest))
         ELSE Clean(Append(done, Head(rest)), Tail(rest))

\* filepath.ToSlash(filepath.Join(a, b))
Join(a, b) == Clean(<<>>, a \o b)

\* The duplicate-alias error of the first pass: `first` is the factory already
\* in the container, `path` the Path of the annotation that repeats its alias.
DuplicateError(alias, first, path) ==
    IF first.Module = path
    THEN ErrAt("Duplicate Alias", alias, "", first.Module)
    ELSE ErrAt("Alias used by", alias, "", first.Module)

\* First pass, from annotation i on: one Factory per Factory annotation.
RECURSIVE AddFactories(_, _, _, _)
AddFactories(anns, i, modPath, cont) ==
    IF i > Len(anns) THEN [container |-> cont, err |-> NoErr]
    ELSE LET a == anns[i]
         IN IF a.Type # "Factory" THEN AddFactories(anns, i + 1, modPath, cont)
            ELSE IF a.Alias \in DOMAIN cont
                 THEN [container |-> cont,
                       err |-> DuplicateError(a.Alias, cont[a.Alias], a.Path)]
                 ELSE AddFactories(anns, i + 1, modPath,
                          Put(cont, a.Alias,
                              [Function |-> a.Function, Deps |-> <<>>,
                               Module |-> Join(modPath, a.Path)]))

\* A dependency text of a wire: `^name` is standalone, the name follows the "^".
ParseDep(d) ==
    IF Head(d) = "^" THEN [Name |-> d[2], Standalone |-> TRUE]
    ELSE [Name |-> d[1], Standalone |-> FALSE]

\* The loop over wire.Deps, from entry i on: every name must be a factory.
RECURSIVE ResolveDeps(_, _, _, _, _)
ResolveDeps(texts, i, deps, target, cont) ==
    IF i > Len(texts) THEN [deps |-> deps, err |-> NoErr]
    ELSE LET dep == ParseDep(texts[i])
         IN IF dep.Name \in DOMAIN cont
            THEN ResolveDeps(texts, i + 1, Append(deps, dep), target, cont)
            ELSE [deps |-> deps,
                  err |-> ErrAt("Can't resolve dependency", dep.Name, target,
                                cont[target].Module)]

\* Second pass, from annotation i on: the Deps of every wired factory; a wire
\* whose target is no factory is skipped.
RECURSIVE AddWires(_, _, _)
AddWires(anns, i, cont) ==
    IF i > Len(anns) THEN [container |-> cont, err |-> NoErr]
    ELSE LET a == anns[i]
         IN IF a.Type # "Wire" \/ a.Target \notin DOMAIN cont
            THEN AddWires(anns, i + 1, cont)
            ELSE LET r == ResolveDeps(a.Deps, 1, <<>>, a.Target, cont)
                 IN IF r.err # NoErr THEN [container |-> cont, err |-> r.err]
                    ELSE AddWires(anns, i + 1,
                                  [cont EXCEPT ![a.Target].Deps = r.deps])

\* The inner loop over f.Deps of the scheduler the scanner calls.
RECURSIVE AddDepsLegacy(_, _, _, _, _)
AddDepsLegacy(cont, alias, i, indegree, graph) ==
    IF i > Len(cont[alias].Deps) THEN [indegree |-> indegree, graph |-> graph]
    ELSE LET dep == cont[alias].Deps[i]
         IN AddDepsLegacy(cont, alias, i + 1,
                          Put(indegree, alias, indegree[alias] + 1),
                          Put(graph, dep.Name, Append(GetSlice(graph, dep.Name), alias)))

\* Its outer loop `for alias, f := range container`.
RECURSIVE BuildAdjacencyLegacy(_, _, _, _, _)
BuildAdjacencyLegacy(cont, enum, j, indegree, graph) ==
    IF j > Len(enum) THEN [indegree |-> indegree, graph |-> graph]
    ELSE LET alias == enum[j]
             ind0 == IF alias \in DOMAIN indegree THEN indegree ELSE Put(indegree, alias, 0)
             r == AddDepsLegacy(cont, alias, 1, ind0, graph)
         IN BuildAdjacencyLegacy(cont, enum, j + 1, r.indegree, r.graph)

\* BuildOrder as the scanner calls it: Kahn's algorithm and the cycle test.
BuildOrderLegacy(cont, enumC, enumI) ==
    LET adj == BuildAdjacencyLegacy(cont, enumC, 1, EmptyMap, EmptyMap)
        kahn == Drain(SeedQueue(adj.indegree, enumI), <<>>, adj.indegree, adj.graph)
    IN IF ~IsComplete(cont, kahn)
       THEN [order |-> <<>>, err |-> Err("circular", "", ""), kahn |-> kahn]
       ELSE [order |-> kahn, err |-> NoErr, kahn |-> kahn]

\* `for _, item := range order` of the two-argument GenerateCode: the local
\* identifier of every declaration comes from GenUID.
RECURSIVE EmitDeclsLegacy(_, _, _, _, _, _)
EmitDeclsLegacy(ctx, order, i, stmts, depIdents, cont) ==
    IF i > Len(order) THEN [ctx |-> ctx, stmts |-> stmts, depIdents |-> depIdents]
    ELSE LET item == order[i]
             factory == cont[item]
             u == GenUID(ctx)
             ctx1 == [u.ctx EXCEPT !.Container = Put(@, item, u.id)]
             a == GenArgs(ctx1, factory.Deps, 1, <<>>, cont)
             imp == ResolveImport(a.ctx, factory.Module)
             stmt == [Name |-> u.id, Value |-> CallExpr(imp.id, factory.Function, a.args)]
         IN EmitDeclsLegacy(imp.ctx, order, i + 1, Append(stmts, stmt),
                            Append(depIdents, u.id), cont)

\* GenerateCode(pkg, config), the emitter the scanner calls.
GenerateCodeLegacy(cont, enumC, enumI, enumM) ==
    LET bo == BuildOrderLegacy(cont, enumC, enumI)
    IN IF bo.err # NoErr
       THEN [file |-> NoFile, err |-> bo.err, order |-> bo, container |-> cont,
             ctx |-> NewGenContext]
       ELSE LET body == EmitDeclsLegacy(NewGenContext, bo.order, 1, <<>>, <<>>, cont)
            IN [file |-> [text |-> TRUE,
                          imports |-> ImportSpecs(body.ctx.ImportID, enumM),
                          stmts |-> body.stmts,
                          mark |-> body.depIdents],
                err |-> NoErr, order |-> bo, container |-> cont, ctx |-> body.ctx]

\* ScanProjectAndGenerateDI: scan, first pass, second pass, GenerateCode.
\* The enumerations range over the keys the maps can hold; a map enumerates
\* the ones it does hold, in that order.
ScanProjectAndGenerateDI(cs, modPath, enumC, enumI, enumM) ==
    LET anns == parseFileComments(cs)
        p1 == AddFactories(anns, 1, modPath, EmptyMap)
    IN IF p1.err # NoErr
       THEN [file |-> NoFile, err |-> p1.err, order |-> NoResult,
             container |-> p1.container, ctx |-> NewGenContext]
       ELSE LET p2 == AddWires(anns, 1, p1.container)
                keys == DOMAIN p1.container
            IN IF p2.err # NoErr
               THEN [file |-> NoFile, err |-> p2.err, order |-> NoResult,
                     container |-> p2.container, ctx |-> NewGenContext]
               ELSE GenerateCodeLegacy(p2.container,
                        SelectSeq(enumC, LAMBDA k : k \in keys),
                        SelectSeq(enumI, LAMBDA k : k \in keys), enumM)

\* The directive comments a scan can meet.
FactoryComments ==
    {Comment("factory", FunctionOf(k), k, <<>>, d) : k \in ScanAliases, d \in Dirs}

WireComments ==
    {Comment("wire", "", k, <<t>>, Root) : k \in ScanAliases, t \in DepTexts}

MarkComments ==
    {Comment(key, "", k, <<>>, Root) : key \in {"final", "disable"}, k \in ScanAliases}

AllComments == FactoryComments \cup WireComments \cup MarkComments

\* The module paths the scanner gives the factories.
ScanModulePaths == {Join(<<ModuleName>>, d) : d \in Dirs}

\* ------------------------------------------------------------------------
\* State
\* ------------------------------------------------------------------------

VARIABLES
    container,  \* DIConfig.Container: alias -> Factory
    pc,         \* "start", then the name of the call that returned
    result,     \* what BuildOrder returned: order, err (and the Kahn order)
    output,     \* the file GenerateCode returned
    err,        \* the error GenerateCode returned
    genctx,     \* the GenContext when GenerateCode returned
    comments    \* the directive comments of the project's files, in scan order

vars == <<container, pc, result, output, err, genctx, comments>>

Init ==
    /\ \E K \in SUBSET Aliases :
         \E edges \in EdgeLists(K), fs \in FlagMaps(K) :
            container = MkContainer(K, edges, fs)
    /\ pc = "start"
    /\ result = NoResult
    /\ output = NoFile
    /\ err = NoErr
    /\ genctx = NewGenContext
    /\ comments = <<>>

\* A project to scan: its comments; the container is still to be built.
InitScan ==
    /\ \E n \in 0..MaxComments : comments \in [1..n -> AllComments]
    /\ container = EmptyMap
    /\ pc = "start"
    /\ result = NoResult
    /\ output = NoFile
    /\ err = NoErr
    /\ genctx = NewGenContext

\* A call of BuildOrder on the container.
BuildOrderCall ==
    /\ pc = "start"
    /\ \E enumC \in Perms(DOMAIN container), enumI \in Perms(DOMAIN container) :
          result' = BuildOrder(container, enumC, enumI)
    /\ pc' = "BuildOrder"
    /\ UNCHANGED <<container, output, err, genctx, comments>>

\* A call of GenerateCode on the container.
GenerateCodeCall ==
    /\ pc = "start"
    /\ \E enumC \in Perms(DOMAIN container), enumI \in Perms(DOMAIN container),
          enumM \in Perms(ModulePaths) :
          \E g \in {GenerateCode(Root, ModuleName, container, enumC, enumI, enumM)} :
             /\ result' = g.order
             /\ output' = g.file
             /\ err' = g.err
             /\ container' = g.container
             /\ genctx' = g.ctx
    /\ pc' = "GenerateCode"
    /\ UNCHANGED comments

\* A run of ScanProjectAndGenerateDI on the comments.
ScanProjectAndGenerateDICall ==
    /\ pc = "start"
    /\ \E enumC \in Perms(ScanAliases), enumI \in Perms(ScanAliases),
          enumM \in Perms(ScanModulePaths) :
          \E g \in {ScanProjectAndGenerateDI(comments, <<ModuleName>>, enumC, enumI, enumM)} :
             /\ result' = g.order
             /\ output' = g.file
             /\ err' = g.err
             /\ container' = g.container
             /\ genctx' = g.ctx
    /\ pc' = "Scan"
    /\ UNCHANGED comments

\* The scheduler alone: calls of BuildOrder.
Next == BuildOrderCall

Spec == Init /\ [][Next]_vars

\* The emitter (which runs the scheduler first): calls of GenerateCode.
NextGen == GenerateCodeCall

SpecGen == Init /\ [][NextGen]_vars

\* The whole pipeline: runs of ScanProjectAndGenerateDI.
NextScan == ScanProjectAndGenerateDICall

SpecScan == InitScan /\ [][NextScan]_vars

\* ------------------------------------------------------------------------
\* Properties
\* ------------------------------------------------------------------------

\* The aliases factory x lists as dependencies.
DepNames(c, x) == {c[x].Deps[i].Name : i \in 1..Len(c[x].Deps)}

\* The aliases reachable from the set S along dependency entries, S included.
RECURSIVE Closure(_, _, _)
Closure(c, S, n) ==
    IF n = 0 THEN S
    ELSE Closure(c, S \cup UNION {DepNames(c, y) : y \in S}, n - 1)

\* The dependency graph has a cycle: some factory reaches itself.
Cyclic(c) ==
    \E x \in DOMAIN c : x \in Closure(c, DepNames(c, x), Cardinality(DOMAIN c))

\* Some dependency entry names a factory flagged Final or Disable.
FlaggedDep(c) ==
    \E x \in DOMAIN c : \E d \in DepNames(c, x) : c[d].Final \/ c[d].Disable

\* The aliases flagged Final.
Finals(c) == {x \in DOMAIN c : c[x].Final}

\* C1: for an acyclic container in which no dependency names a Final or
\* Disable factory, BuildOrder returns no error and an order that holds every
\* alias exactly once, every dependency entry (standalone or not, repeated or
\* not) strictly before its dependent, after the final repartition.
C1_TopologicalOrder ==
    (pc = "BuildOrder" /\ ~Cyclic(container) /\ ~FlaggedDep(container)) =>
        /\ result.err = NoErr
        /\ Len(result.order) = Cardinality(DOMAIN container)
        /\ \A x \in DOMAIN container : Count(result.order, x) = 1
        /\ \A x \in DOMAIN container : \A i \in 1..Len(container[x].Deps) :
              IndexOf(result.order, container[x].Deps[i].Name) < IndexOf(result.order, x)

\* An acyclic container with a repeated, standalone dependency and a Final
\* factory that the repartition moved.
C1_Witness ==
    /\ pc = "BuildOrder" /\ ~Cyclic(container) /\ ~FlaggedDep(container)
    /\ result.err = NoErr /\ result.kahn # result.order
    /\ \E x \in DOMAIN container :
          /\ Len(container[x].Deps) = 2
          /\ container[x].Deps[1].Name = container[x].Deps[2].Name
          /\ container[x].Deps[1].Standalone

\* C2 as claimed: every cyclic container, one with a Final or Disable factory
\* on the cycle included, gets the "circular dependency" error and no order.
C2_CycleAlwaysCircular ==
    (pc = "BuildOrder" /\ Cyclic(container)) =>
        (result.err.kind = "circular" /\ result.order = <<>>)

\* C2 as amended: a cyclic container always gets an error and no order, never
\* a partial one; the error is "circular dependency" exactly when no dependency
\* names a Final or Disable factory, and the final/disable error otherwise.
C2_CycleRejected ==
    (pc = "BuildOrder" /\ Cyclic(container)) =>
        /\ result.err # NoErr
        /\ result.order = <<>>
        /\ (result.err.kind = "circular") <=> ~FlaggedDep(container)
        /\ result.err.kind \in {"circular", "final", "disable"}

\* A cycle made of standalone dependencies only, beside a factory the drain
\* did emit: the partial order is dropped.
C2_Witness ==
    /\ pc = "BuildOrder" /\ Cyclic(container)
    /\ \A x \in DOMAIN container : \A i \in 1..Len(container[x].Deps) :
          container[x].Deps[i].Standalone
    /\ result.kahn # <<>> /\ result.order = <<>> /\ result.err.kind = "circular"

\* C3: when some dependency names a Final or Disable factory, BuildOrder
\* returns the final/disable error for such an entry and no order, cyclic
\* graph or not and whatever the enumeration order, and GenerateCode returns
\* the empty string with that error.
C3_FlaggedDependencyRejected ==
    (pc = "GenerateCode" /\ FlaggedDep(container)) =>
        /\ result.err.kind \in {"final", "disable"}
        /\ result.order = <<>>
        /\ result.err.dep \in DepNames(container, result.err.of)
        /\ (result.err.kind = "final") => container[result.err.dep].Final
        /\ (result.err.kind = "disable") => container[result.err.dep].Disable
        /\ output = NoFile
        /\ err = result.err

\* A Disable factory named as a dependency in a cyclic graph.
C3_Witness ==
    /\ pc = "GenerateCode" /\ FlaggedDep(container) /\ Cyclic(container)
    /\ err.kind = "disable" /\ ~output.text

\* C4: in every order BuildOrder returns the Final aliases are a suffix, and
\* two Final aliases, and two non-Final aliases, keep the relative order the
\* queue-draining loop gave them.
C4_FinalsLast ==
    (pc = "BuildOrder" /\ result.err = NoErr) =>
        /\ \A i, j \in 1..Len(result.order) :
              (i < j /\ container[result.order[i]].Final) => container[result.order[j]].Final
        /\ Range(result.order) = Range(result.kahn)
        /\ Len(result.order) = Len(result.kahn)
        /\ \A x, y \in DOMAIN container :
              (container[x].Final = container[y].Final) =>
                 ((IndexOf(result.order, x) < IndexOf(result.order, y))
                    <=> (IndexOf(result.kahn, x) < IndexOf(result.kahn, y)))

\* Two Final aliases that the drain emitted before a non-Final one.
C4_Witness ==
    /\ pc = "BuildOrder" /\ result.err = NoErr
    /\ Cardinality(Finals(container)) = 2
    /\ Len(result.kahn) = 3
    /\ ~container[result.kahn[3]].Final
    /\ result.order # result.kahn

\* The positions of the factory comments that repeat an earlier factory
\* comment's alias, and the first declaration of the alias of comment j.
Repeats ==
    {j \in 1..Len(comments) :
        /\ comments[j].Key = "factory"
        /\ \E i \in 1..(j - 1) :
              comments[i].Key = "factory" /\ comments[i].Alias = comments[j].Alias}

FirstDecl(j) ==
    CHOOSE i \in 1..(j - 1) :
        /\ comments[i].Key = "factory" /\ comments[i].Alias = comments[j].Alias
        /\ \A h \in 1..(i - 1) :
              ~(comments[h].Key = "factory" /\ comments[h].Alias = comments[j].Alias)

\* The directories an error message names.
DirsNamed(e) == {d \in Dirs : e.loc = d \/ e.loc = Join(<<ModuleName>>, d)}

\* C5: two Factory annotations with the same alias yield a fatal error and no
\* code; the error names both declaring locations and reads "Duplicate Alias"
\* when the repeat is declared in the package path of the first declaration,
\* "Alias ... used by" when it is declared in another.
C5_DuplicateAliasReported ==
    (pc = "Scan" /\ Repeats # {}) =>
        LET j == CHOOSE j \in Repeats : \A h \in Repeats : j <= h
            i == FirstDecl(j)
        IN /\ err # NoErr
           /\ output = NoFile
           /\ err.dep = comments[j].Alias
           /\ err.kind = IF comments[i].Path = comments[j].Path
                         THEN "Duplicate Alias" ELSE "Alias used by"
           /\ {comments[i].Path, comments[j].Path} \subseteq DirsNamed(err)

\* A Final or Disable directive names alias x, x has a factory, and a wire of
\* an existing target lists x.
FlaggedAndWired(x) ==
    /\ \E i \in 1..Len(comments) :
          comments[i].Key \in {"final", "disable"} /\ comments[i].Alias = x
    /\ \E i \in 1..Len(comments) :
          comments[i].Key = "factory" /\ comments[i].Alias = x
    /\ \E i, t \in 1..Len(comments) :
          /\ comments[i].Key = "wire"
          /\ comments[t].Key = "factory" /\ comments[t].Alias = comments[i].Alias
          /\ \E k \in 1..Len(comments[i].Deps) : ParseDep(comments[i].Deps[k]).Name = x

\* C6: when the scanned comments flag alias x Final or Disable, x has a
\* factory and a wire of an existing target lists x, the run ends with a fatal
\* error and emits no code.
C6_FlaggedDependencyAborts ==
    (pc = "Scan" /\ \E x \in ScanAliases : FlaggedAndWired(x)) =>
        (err # NoErr /\ output = NoFile)

\* Alias y is referenced, and only as a standalone dependency.
StandaloneOnly(c, y) ==
    /\ \E x \in DOMAIN c : y \in DepNames(c, x)
    /\ \A x \in DOMAIN c : \A i \in 1..Len(c[x].Deps) :
          c[x].Deps[i].Name = y => c[x].Deps[i].Standalone

\* The identifiers the file declares at top level.
Declared == {output.stmts[i].Name : i \in 1..Len(output.stmts)}

\* Initializer `value` holds, among its arguments, an inline call to the
\* constructor of factory f.
HasInlineCall(value, f) ==
    \E k \in 1..Len(value.args) :
        /\ value.args[k].kind = "call"
        /\ value.args[k].name = f.Function
        /\ value.args[k].mod = GetString(genctx.ImportID, f.Module)

\* C7 as claimed: an alias referenced only as a standalone dependency is
\* called inline in its dependents' initializers and has no top-level
\* declaration, nor is it an argument of Mark.
C7_NoDeclarationForStandalone ==
    (pc = "GenerateCode" /\ output.text) =>
        \A y \in DOMAIN container : StandaloneOnly(container, y) =>
            /\ LocalID(container[y]) \notin Declared
            /\ LocalID(container[y]) \notin Range(output.mark)
            /\ \A i \in 1..Len(output.stmts) :
                  y \in DepNames(container, result.order[i]) =>
                     HasInlineCall(output.stmts[i].Value, container[y])

\* C7 as amended: a standalone dependency is expanded inline, at its argument
\* position, as a call to the constructor of its factory, and the expansion
\* declares nothing: the file has exactly one top-level declaration per alias
\* of the container, in the scheduler's order and each an argument of Mark,
\* the alias referenced only as a standalone dependency included.
C7_StandaloneInlined ==
    (pc = "GenerateCode" /\ output.text) =>
        /\ Len(output.stmts) = Cardinality(DOMAIN container)
        /\ Len(output.stmts) = Len(result.order)
        /\ \A i \in 1..Len(output.stmts) :
              /\ output.stmts[i].Name = LocalID(container[result.order[i]])
              /\ output.stmts[i].Value.name = container[result.order[i]].Function
              /\ output.mark[i] = output.stmts[i].Name
        /\ Len(output.mark) = Len(output.stmts)
        /\ \A i \in 1..Len(output.stmts) :
              LET f == container[result.order[i]]
              IN /\ Len(output.stmts[i].Value.args) = Len(f.Deps)
                 /\ \A k \in 1..Len(f.Deps) :
                       f.Deps[k].Standalone =>
                          LET arg == output.stmts[i].Value.args[k]
                              g == container[f.Deps[k].Name]
                          IN /\ arg.kind = "call"
                             /\ arg.name = g.Function
                             /\ arg.mod = GetString(genctx.ImportID, g.Module)
                             /\ arg.mod # ""

\* A file emitted for a container with an alias referenced only as a
\* standalone dependency.
C7_Witness ==
    /\ pc = "GenerateCode" /\ output.text
    /\ \E y \in DOMAIN container : StandaloneOnly(container, y)

\* The import paths of a list of import specs.
Paths(specs) == [i \in 1..Len(specs) |-> specs[i].Path]

\* C8: whatever order the maps are enumerated in, a run on the same container
\* gives the same sequence of declarations and the same sequence of import
\* bindings (up to the generated identifiers).
C8_Deterministic ==
    (pc = "GenerateCode" /\ output.text) =>
        /\ \A enumC \in Perms(DOMAIN container), enumI \in Perms(DOMAIN container) :
              BuildOrder(container, enumC, enumI).order = result.order
        /\ \A enumM \in Perms(ModulePaths) :
              Paths(ImportSpecs(genctx.ImportID, enumM)) = Paths(output.imports)

\* C9: the identifiers bound in the file are pairwise distinct: the top-level
\* declarations among themselves, the import bindings among themselves (one
\* per distinct package path), and no declaration against any import alias.
C9_DistinctIdentifiers ==
    (pc = "GenerateCode" /\ output.text) =>
        /\ \A i, j \in 1..Len(output.stmts) :
              i # j => output.stmts[i].Name # output.stmts[j].Name
        /\ \A i, j \in 1..Len(output.imports) :
              i # j => /\ output.imports[i].Name # output.imports[j].Name
                       /\ output.imports[i].Path # output.imports[j].Path
        /\ \A k \in DOMAIN container :
              \E i \in 1..Len(output.imports) : output.imports[i].Path = container[k].Module
        /\ \A i \in 1..Len(output.stmts) : \A j \in 1..Len(output.imports) :
              output.stmts[i].Name # output.imports[j].Name

\* The identifiers an expression refers to, at any depth.
RECURSIVE IdentsOf(_)
IdentsOf(e) ==
    IF e.kind = "ident" THEN {e.name}
    ELSE UNION {IdentsOf(e.args[k]) : k \in 1..Len(e.args)}

\* The arguments follow the Deps list, entry by entry and at every depth: an
\* identifier for a shared dependency, a call of its constructor for a
\* standalone one.
RECURSIVE ArgsFollow(_, _, _)
ArgsFollow(args, deps, c) ==
    /\ Len(args) = Len(deps)
    /\ \A k \in 1..Len(deps) :
          IF deps[k].Standalone
          THEN /\ args[k].kind = "call"
               /\ args[k].name = c[deps[k].Name].Function
               /\ ArgsFollow(args[k].args, c[deps[k].Name].Deps, c)
          ELSE /\ args[k].kind = "ident"
               /\ args[k].name = LocalID(c[deps[k].Name])

\* C10: every identifier an initializer refers to, directly or inside a
\* nested standalone expansion, is the non-empty identifier of a declaration
\* emitted strictly earlier, and the arguments of each call follow the
\* declared order of the factory's Deps.
C10_DeclaredBeforeUse ==
    (pc = "GenerateCode" /\ output.text) =>
        \A i \in 1..Len(output.stmts) :
            /\ \A n \in IdentsOf(output.stmts[i].Value) :
                  /\ n # ""
                  /\ \E j \in 1..(i - 1) : output.stmts[j].Name = n
            /\ ArgsFollow(output.stmts[i].Value.args,
                          container[result.order[i]].Deps, container)

\* A shared dependency referred to inside a standalone expansion.
C10_Witness ==
    /\ pc = "GenerateCode" /\ output.text
    /\ \E i \in 1..Len(output.stmts) : \E k \in 1..Len(output.stmts[i].Value.args) :
          LET arg == output.stmts[i].Value.args[k]
          IN arg.kind = "call" /\ \E m \in 1..Len(arg.args) : arg.args[m].kind = "ident"

====
